---- MODULE Spec2Model ----
(***************************************************************************)
(* Android XML preview extension (xml-vector-viewer).                       *)
(*                                                                         *)
(* The module models                                                       *)
(*   - the preview panel life cycle of src/src/extension.ts: createOrShow, *)
(*     the change subscription, the asynchronous conversion run of         *)
(*     updatePreview and the inline script of the vector shell;            *)
(*   - the dimension resolution of src/src/extension.ts                    *)
(*     (convertLayoutDimension) and of src/unnamed/part_002                *)
(*     (AndroidXMLParser.parseDimension, parsePixelValue);                 *)
(*   - the converters of src/src/extension.ts applied to one input: the    *)
(*     parser configuration and the parse, convertVectorToSVG,             *)
(*     renderLayoutElement, calculateConstraintStyle, getMarginStyle and   *)
(*     getPaddingStyle;                                                    *)
(*   - the view tree of src/unnamed/part_000 as AndroidXMLParser.createView *)
(*     of src/unnamed/part_002 builds it, and its measure pass             *)
(*     (View.measure, ViewGroup.measure, ConstraintLayout.measure).        *)
(*                                                                         *)
(* JavaScript strings are TLA+ strings; a JavaScript value of unknown type *)
(* is a tagged record (Str, Num, Bool, Undefined, NaN), so that === is     *)
(* plain equality of the records.                                          *)
(***************************************************************************)
EXTENDS Integers, Sequences, FiniteSets, TLC

VARIABLES
    disk,       \* uri -> stored content of the file (what fs.readFile returns)
    buffer,     \* uri -> text of the document as shown in the editor
    panels,     \* sequence of webview panels created by createOrShow
    runs,       \* sequence of conversion runs (calls of updatePreview)
    edits,      \* number of edit/save events so far (bounded)
    messages,   \* error messages shown by showErrorMessage
    dimRaw,     \* dimension spec: the attribute text, or Absent
    dimIn,      \* dimension spec: the value as it arrives from the parser
    dimBy,      \* dimension spec: the resolver applied last
    dimOut,     \* dimension spec: the resolver's result
    renIn,      \* render spec: the input a converter is applied to
    renBy,      \* render spec: the converter applied
    renOut,     \* render spec: the converter's result
    layout,     \* view spec: the view tree built by createView
    measured    \* view spec: the specs of the calls of measure on the tree

vars == <<disk, buffer, panels, runs, edits, messages,
          dimRaw, dimIn, dimBy, dimOut, renIn, renBy, renOut,
          layout, measured>>

previewVars == <<disk, buffer, panels, runs, edits, messages>>
dimVars == <<dimRaw, dimIn, dimBy, dimOut>>
renVars == <<renIn, renBy, renOut>>
viewVars == <<layout, measured>>

-----------------------------------------------------------------------------
(* Bounds                                                                  *)

MaxPanels == 2
MaxRuns == 2
MaxEdits == 1
MaxPx == 12
MaxMeasures == 2

-----------------------------------------------------------------------------
(* JavaScript values and string primitives                                 *)

Str(s) == [t |-> "string", s |-> s]
\* A number is n / 10^k, with k = 0 for an integer and, for k > 0, n not
\* divisible by 10.
Num(n) == [t |-> "number", n |-> n, k |-> 0]
Bool(b) == [t |-> "boolean", b |-> b]
Undefined == [t |-> "undefined"]
NaN == [t |-> "NaN"]

Digits == "0123456789"

IsDigit(c) == \E i \in 1..10 : SubSeq(Digits, i, i) = c

DigitVal(c) == (CHOOSE i \in 1..10 : SubSeq(Digits, i, i) = c) - 1

CharAt(s, i) == SubSeq(s, i, i)

\* String.prototype.includes
Includes(s, sub) ==
    \E i \in 0..(Len(s) - Len(sub)) : SubSeq(s, i + 1, i + Len(sub)) = sub

\* String.prototype.indexOf(pat, i): position of the first occurrence of pat
\* in s at or after i (positions from 1), 0 if none
FindFrom(s, pat, i) ==
    IF \E j \in i..(Len(s) - Len(pat) + 1) : SubSeq(s, j, j + Len(pat) - 1) = pat
    THEN CHOOSE j \in i..(Len(s) - Len(pat) + 1) :
            /\ SubSeq(s, j, j + Len(pat) - 1) = pat
            /\ \A m \in i..(j - 1) : SubSeq(s, m, m + Len(pat) - 1) # pat
    ELSE 0

\* String.prototype.endsWith
EndsWith(s, suf) ==
    /\ Len(s) >= Len(suf)
    /\ SubSeq(s, Len(s) - Len(suf) + 1, Len(s)) = suf

\* String.prototype.startsWith
StartsWith(s, pre) ==
    /\ Len(s) >= Len(pre)
    /\ SubSeq(s, 1, Len(pre)) = pre

RECURSIVE NatToString(_)
NatToString(n) ==
    IF n < 10 THEN CharAt(Digits, n + 1)
    ELSE NatToString(n \div 10) \o CharAt(Digits, (n % 10) + 1)

\* Number.prototype.toString for integers
NumToString(n) == IF n < 0 THEN "-" \o NatToString(-n) ELSE NatToString(n)

RECURSIVE Pow10(_)
Pow10(k) == IF k = 0 THEN 1 ELSE 10 * Pow10(k - 1)

\* the number n / 10^k in its normal form
RECURSIVE Dec(_, _)
Dec(n, k) ==
    IF k > 0 /\ n % 10 = 0 THEN Dec(n \div 10, k - 1)
    ELSE [t |-> "number", n |-> n, k |-> k]

\* the decimal digits of n, at least k of them (leading zeros added)
RECURSIVE Padded(_, _)
Padded(n, k) ==
    IF k <= 1 THEN NatToString(n)
    ELSE Padded(n \div 10, k - 1) \o CharAt(Digits, (n % 10) + 1)

\* Number.prototype.toString for n / 10^k
DecToString(n, k) ==
    IF k = 0 THEN NumToString(n)
    ELSE (IF n < 0 THEN "-" ELSE "")
         \o NatToString((IF n < 0 THEN -n ELSE n) \div Pow10(k))
         \o "." \o Padded((IF n < 0 THEN -n ELSE n) % Pow10(k), k)

\* length of the longest prefix of s (from position i) made of digits
RECURSIVE DigitRun(_, _)
DigitRun(s, i) ==
    IF i <= Len(s) /\ IsDigit(CharAt(s, i)) THEN 1 + DigitRun(s, i + 1) ELSE 0

RECURSIVE DigitsValue(_, _, _)
DigitsValue(s, i, n) ==
    IF n = 0 THEN 0
    ELSE DigitsValue(s, i, n - 1) * 10 + DigitVal(CharAt(s, i + n - 1))

\* parseInt applied to a string: optional sign, then the leading digits;
\* NaN when there is no digit.
ParseIntStr(s) ==
    LET signed == Len(s) >= 1 /\ CharAt(s, 1) \in {"-", "+"}
        first == IF signed THEN 2 ELSE 1
        n == DigitRun(s, first)
    IN  IF n = 0 THEN NaN
        ELSE LET v == DigitsValue(s, first, n)
             IN  Num(IF signed /\ CharAt(s, 1) = "-" THEN -v ELSE v)

\* Objects and arrays as the XML parser builds them.  An object keeps its
\* keys in insertion order (Object.entries enumerates them in that order).
Obj(keys, o) == [t |-> "object", keys |-> keys, o |-> o]
Arr(a) == [t |-> "array", a |-> a]

\* value.toString(); an array joins the strings of its elements with ","
RECURSIVE toString(_)
toString(v) ==
    CASE v.t = "string" -> v.s
      [] v.t = "number" -> DecToString(v.n, v.k)
      [] v.t = "boolean" -> IF v.b THEN "true" ELSE "false"
      [] v.t = "NaN" -> "NaN"
      [] v.t = "array" ->
            IF Len(v.a) = 0 THEN ""
            ELSE IF Len(v.a) = 1 THEN toString(v.a[1])
            ELSE toString(v.a[1]) \o "," \o toString(Arr(Tail(v.a)))
      [] v.t = "object" -> "[object Object]"
      [] OTHER -> "undefined"

\* parseInt(value): the argument is converted to a string first
ParseInt(v) == ParseIntStr(toString(v))

\* JavaScript truthiness: !value holds for undefined, '', 0, NaN and false
Falsy(v) ==
    \/ v.t = "undefined"
    \/ v.t = "NaN"
    \/ v.t = "string" /\ v.s = ""
    \/ v.t = "number" /\ v.n = 0
    \/ v.t = "boolean" /\ ~v.b

\* the decimal literal [sign] digits "." digits (a digit on one side at
\* least) as a number; first is the position after the sign, i the length
\* of the integer digits, f the length of the fraction digits
DecimalValue(s, first, i, f) ==
    IF Len(s) >= 1 /\ CharAt(s, 1) = "-"
    THEN Dec(-(DigitsValue(s, first, i) * Pow10(f)
               + DigitsValue(s, first + i + 1, f)), f)
    ELSE Dec(DigitsValue(s, first, i) * Pow10(f)
             + DigitsValue(s, first + i + 1, f), f)

\* whether s from position first is digits "." digits up to its end
IsDecimal(s, first) ==
    /\ first + DigitRun(s, first) <= Len(s)
    /\ CharAt(s, first + DigitRun(s, first)) = "."
    /\ first + DigitRun(s, first)
         + DigitRun(s, first + DigitRun(s, first) + 1) = Len(s)
    /\ DigitRun(s, first) + DigitRun(s, first + DigitRun(s, first) + 1) >= 1

\* The value the XML parser stores for an attribute text when
\* parseAttributeValue is true: a decimal literal becomes a number, the
\* literals true/false become booleans, anything else stays a string.
ParseAttributeValue(s) ==
    LET signed == Len(s) >= 1 /\ CharAt(s, 1) \in {"-", "+"}
        first == IF signed THEN 2 ELSE 1
        n == DigitRun(s, first)
    IN  IF s = "true" THEN Bool(TRUE)
        ELSE IF s = "false" THEN Bool(FALSE)
        ELSE IF n > 0 /\ first + n - 1 = Len(s) THEN ParseIntStr(s)
        ELSE IF IsDecimal(s, first)
        THEN DecimalValue(s, first, n, Len(s) - first - n)
        ELSE Str(s)

\* parseFloat applied to a string: optional sign, digits, optional fraction;
\* NaN when there is no digit.  (Exponents are not modelled.)
ParseFloat(s) ==
    LET signed == Len(s) >= 1 /\ CharAt(s, 1) \in {"-", "+"}
        first == IF signed THEN 2 ELSE 1
        i == DigitRun(s, first)
        dot == first + i <= Len(s) /\ CharAt(s, first + i) = "."
        f == IF dot THEN DigitRun(s, first + i + 1) ELSE 0
    IN  IF i + f = 0 THEN NaN
        ELSE IF f = 0 THEN ParseIntStr(s)
        ELSE DecimalValue(s, first, i, f)

\* v * 100 for a number or NaN (exact; the inputs tried are binary fractions,
\* for which the floating-point product is exact too)
Times100(v) == IF v.t = "number" THEN Dec(v.n * 100, v.k) ELSE NaN

-----------------------------------------------------------------------------
(* Attribute lookup and dimension resolution                               *)

\* element[key]: undefined unless element is an object that has the key
\* (an array or a string has no such property)
Prop(element, key) ==
    IF element.t = "object" /\ key \in DOMAIN element.o
    THEN element.o[key]
    ELSE Undefined

\* getAttributeValue that looks the attribute up without its prefix
getAttributeValue_noPrefix(element, name, defaultValue) ==
    IF Prop(element, "@_" \o name) # Undefined
    THEN toString(Prop(element, "@_" \o name))
    ELSE defaultValue

\* getAttributeValue(element, name, defaultValue); element is not undefined
getAttributeValue(element, name, defaultValue) ==
    LET attrName == "@_android:" \o name
        value == Prop(element, attrName)
    IN  IF value # Undefined THEN toString(value) ELSE defaultValue

\* convertLayoutDimension without the branch for the sp suffix
convertLayoutDimension_noSp(value) ==
    IF Falsy(value) \/ value = Str("wrap_content") \/ value = Str("-2")
    THEN "auto"
    ELSE IF value = Str("match_parent") \/ value = Str("-1")
            \/ value = Str("fill_parent")
    THEN "100%"
    ELSE IF value.t = "string" /\ EndsWith(value.s, "dp")
    THEN toString(ParseInt(value)) \o "px"
    ELSE IF value.t = "number" THEN toString(value) \o "px"
    ELSE "auto"

\* convertLayoutDimension(value) of extension.ts; value is a JavaScript value
convertLayoutDimension(value) ==
    IF Falsy(value) \/ value = Str("wrap_content") \/ value = Str("-2")
    THEN "auto"
    ELSE IF value = Str("match_parent") \/ value = Str("-1")
            \/ value = Str("fill_parent")
    THEN "100%"
    ELSE IF value.t = "string" /\ EndsWith(value.s, "dp")
    THEN toString(ParseInt(value)) \o "px"
    ELSE IF value.t = "string" /\ EndsWith(value.s, "sp")
    THEN toString(ParseInt(value)) \o "px"
    ELSE IF value.t = "number" THEN toString(value) \o "px"
    ELSE "auto"

\* AndroidXMLParser.parseDimension(value) of part_002
parseDimension(value) ==
    IF Falsy(value) THEN Str("wrap_content")
    ELSE IF value = Str("match_parent") \/ value = Str("-1")
    THEN Str("match_parent")
    ELSE IF value = Str("wrap_content") \/ value = Str("-2")
    THEN Str("wrap_content")
    ELSE IF value.t = "string" /\ EndsWith(value.s, "dp")
    THEN ParseInt(value)
    ELSE IF Falsy(ParseInt(value)) THEN Str("wrap_content")
    ELSE ParseInt(value)

\* AndroidXMLParser.parsePixelValue(value) of part_002
parsePixelValue(value) ==
    IF Falsy(value) THEN Num(0)
    ELSE IF value.t = "string"
            /\ (EndsWith(value.s, "dp") \/ EndsWith(value.s, "sp"))
    THEN ParseInt(value)
    ELSE IF Falsy(ParseInt(value)) THEN Num(0)
    ELSE ParseInt(value)

-----------------------------------------------------------------------------
(* XML documents and the XML parser                                        *)

\* A document is the XML text of a file, kept in structured form:
\*   wellFormed  whether the parser accepts the text
\*   root        the root element
\*   comment     the text of a comment in front of the root, "" if none
\* An element is [tag, attrs, kids]: attrs is a sequence of <<name, text>>
\* in document order, kids the sequence of child elements.
Elem(tag, attrs, kids) == [tag |-> tag, attrs |-> attrs, kids |-> kids]
Doc(wellFormed, root) ==
    [wellFormed |-> wellFormed, root |-> root, comment |-> ""]

\* a well-formed document with a comment in front of its root element
Commented(comment, root) ==
    [wellFormed |-> TRUE, root |-> root, comment |-> comment]

RECURSIVE Concat(_)
Concat(ss) == IF Len(ss) = 0 THEN "" ELSE Head(ss) \o Concat(Tail(ss))

\* the XML text of an element
RECURSIVE XmlText(_)
XmlText(e) ==
    "<" \o e.tag
    \o Concat([i \in 1..Len(e.attrs) |->
                 " " \o e.attrs[i][1] \o "='" \o e.attrs[i][2] \o "'"])
    \o IF Len(e.kids) = 0 THEN "/>"
       ELSE ">" \o Concat([i \in 1..Len(e.kids) |-> XmlText(e.kids[i])])
            \o "</" \o e.tag \o ">"

\* the text of a document; a malformed document lacks its end
xmlString(doc) ==
    (IF doc.comment = "" THEN "" ELSE "<!--" \o doc.comment \o "-->")
    \o IF doc.wellFormed THEN XmlText(doc.root) ELSE XmlText(doc.root) \o "<"

\* position of the first occurrence of character c in s, 0 if none
IndexOf(s, c) ==
    IF \E i \in 1..Len(s) : CharAt(s, i) = c
    THEN CHOOSE i \in 1..Len(s) :
            CharAt(s, i) = c /\ \A j \in 1..(i - 1) : CharAt(s, j) # c
    ELSE 0

\* position of the last occurrence of character c in s, 0 if none
LastIndexOf(s, c) ==
    IF \E i \in 1..Len(s) : CharAt(s, i) = c
    THEN CHOOSE i \in 1..Len(s) :
            CharAt(s, i) = c /\ \A j \in (i + 1)..Len(s) : CharAt(s, j) # c
    ELSE 0

\* removeNSPrefix: a name of the form prefix:local is reduced to local
NsName(name, removeNSPrefix) ==
    LET i == IndexOf(name, ":")
    IN  IF removeNSPrefix /\ i > 0 /\ i = LastIndexOf(name, ":")
        THEN SubSeq(name, i + 1, Len(name))
        ELSE name

\* the isArray callback of updatePreview
isArray(isVectorDrawable, name) ==
    ~isVectorDrawable \/ name \in {"path", "group"}

RECURSIVE Uniq(_)
Uniq(ks) ==
    IF Len(ks) = 0 THEN <<>>
    ELSE LET rest == Uniq(SubSeq(ks, 1, Len(ks) - 1))
             k == ks[Len(ks)]
         IN  IF \E i \in 1..Len(rest) : rest[i] = k THEN rest
             ELSE Append(rest, k)

\* The value the parser builds for an element under the options of
\* updatePreview (attributeNamePrefix '@_', removeNSPrefix = ~isVectorDrawable,
\* parseAttributeValue, isArray): '' for an element without attributes and
\* children, else an object with one key per child tag (first) and one key
\* per attribute.
RECURSIVE ParseElem(_, _)
ParseElem(e, isVectorDrawable) ==
    LET rm == ~isVectorDrawable
        kidKey(i) == NsName(e.kids[i].tag, rm)
        attrKey(i) == "@_" \o NsName(e.attrs[i][1], rm)
        kidKeys == Uniq([i \in 1..Len(e.kids) |-> kidKey(i)])
        attrKeys == Uniq([i \in 1..Len(e.attrs) |-> attrKey(i)])
        kidsOf(k) == SelectSeq(e.kids, LAMBDA c : NsName(c.tag, rm) = k)
        kidValue(k) ==
            LET items == [i \in 1..Len(kidsOf(k)) |->
                            ParseElem(kidsOf(k)[i], isVectorDrawable)]
            IN  IF isArray(isVectorDrawable, k) \/ Len(items) > 1
                THEN Arr(items) ELSE items[1]
        attrValue(k) ==
            LET i == CHOOSE j \in 1..Len(e.attrs) :
                        attrKey(j) = k
                        /\ \A m \in (j + 1)..Len(e.attrs) : attrKey(m) # k
                v == ParseAttributeValue(e.attrs[i][2])
            IN  IF isArray(isVectorDrawable, k) THEN Arr(<<v>>) ELSE v
        keys == kidKeys \o attrKeys
    IN  IF Len(keys) = 0 THEN Str("")
        ELSE Obj(keys,
                 [k \in {keys[i] : i \in 1..Len(keys)} |->
                    IF \E i \in 1..Len(kidKeys) : kidKeys[i] = k
                    THEN kidValue(k) ELSE attrValue(k)])

\* parser.parse(xmlString): the object whose only key is the root tag (no
\* commentPropName is configured, so a comment leaves no trace)
ParseDoc(doc, isVectorDrawable) ==
    LET k == NsName(doc.root.tag, ~isVectorDrawable)
        v == ParseElem(doc.root, isVectorDrawable)
    IN  Obj(<<k>>, (k :> IF isArray(isVectorDrawable, k) THEN Arr(<<v>>) ELSE v))

-----------------------------------------------------------------------------
(* Converters of extension.ts                                              *)

\* String.prototype.replace(pattern, replacement) with a string pattern:
\* the first occurrence only
Replace(s, pat, rep) ==
    IF Includes(s, pat)
    THEN LET i == CHOOSE j \in 0..(Len(s) - Len(pat)) :
                    /\ SubSeq(s, j + 1, j + Len(pat)) = pat
                    /\ \A m \in 0..(j - 1) : SubSeq(s, m + 1, m + Len(pat)) # pat
         IN  SubSeq(s, 1, i) \o rep \o SubSeq(s, i + Len(pat) + 1, Len(s))
    ELSE s

Upper == "ABCDEFGHIJKLMNOPQRSTUVWXYZ"
Lower == "abcdefghijklmnopqrstuvwxyz"

LowerChar(c) ==
    IF \E i \in 1..26 : CharAt(Upper, i) = c
    THEN CharAt(Lower, CHOOSE i \in 1..26 : CharAt(Upper, i) = c)
    ELSE c

\* String.prototype.toLowerCase
toLowerCase(s) == Concat([i \in 1..Len(s) |-> LowerChar(CharAt(s, i))])

\* convertVectorToSVG whose paths do not inherit the alpha of the vector
convertVectorToSVG_ownAlpha(vector) ==
    LET width == Replace(getAttributeValue(vector, "width", "24dp"), "dp", "")
        height == Replace(getAttributeValue(vector, "height", "24dp"), "dp", "")
        viewportWidth == getAttributeValue(vector, "viewportWidth", width)
        viewportHeight == getAttributeValue(vector, "viewportHeight", height)
        path == Prop(vector, "path")
        pathArray == IF path.t = "array" THEN path.a ELSE <<path>>
        shape(q) ==
            "<path d=\"" \o getAttributeValue(q, "pathData", "")
            \o "\" fill=\"" \o getAttributeValue(q, "fillColor", "#000000")
            \o "\" fill-opacity=\"" \o getAttributeValue(q, "fillAlpha", "1")
            \o "\"/>"
        paths == IF Falsy(path) THEN ""
                 ELSE Concat([i \in 1..Len(pathArray) |-> shape(pathArray[i])])
    IN  "<svg viewBox=\"0 0 " \o viewportWidth \o " " \o viewportHeight
        \o "\">" \o paths \o "</svg>"

\* convertVectorToSVG(vector)
convertVectorToSVG(vector) ==
    LET width == Replace(getAttributeValue(vector, "width", "24dp"), "dp", "")
        height == Replace(getAttributeValue(vector, "height", "24dp"), "dp", "")
        viewportWidth == getAttributeValue(vector, "viewportWidth", width)
        viewportHeight == getAttributeValue(vector, "viewportHeight", height)
        alpha == getAttributeValue(vector, "alpha", "1")
        path == Prop(vector, "path")
        pathArray == IF path.t = "array" THEN path.a ELSE <<path>>
        shape(q) ==
            "<path d=\"" \o getAttributeValue(q, "pathData", "")
            \o "\" fill=\"" \o getAttributeValue(q, "fillColor", "#000000")
            \o "\" fill-opacity=\"" \o getAttributeValue(q, "fillAlpha", alpha)
            \o "\"/>"
        paths == IF Falsy(path) THEN ""
                 ELSE Concat([i \in 1..Len(pathArray) |-> shape(pathArray[i])])
    IN  "<svg viewBox=\"0 0 " \o viewportWidth \o " " \o viewportHeight
        \o "\">" \o paths \o "</svg>"

\* a || b on strings
OrElse(a, b) == IF a # "" THEN a ELSE b

\* getMarginStyle with the directional fallbacks of left and right swapped
getMarginStyle_swapped(props) ==
    LET margin == getAttributeValue(props, "layout_margin", "0")
        marginLeft == OrElse(getAttributeValue(props, "layout_marginLeft", ""),
                      OrElse(getAttributeValue(props, "layout_marginEnd", ""),
                             margin))
        marginRight == OrElse(getAttributeValue(props, "layout_marginRight", ""),
                       OrElse(getAttributeValue(props, "layout_marginStart", ""),
                              margin))
        marginTop == OrElse(getAttributeValue(props, "layout_marginTop", ""),
                            margin)
        marginBottom == OrElse(getAttributeValue(props, "layout_marginBottom", ""),
                               margin)
    IN  convertLayoutDimension(Str(marginTop)) \o " "
        \o convertLayoutDimension(Str(marginRight)) \o " "
        \o convertLayoutDimension(Str(marginBottom)) \o " "
        \o convertLayoutDimension(Str(marginLeft))

\* getMarginStyle(props)
getMarginStyle(props) ==
    LET margin == getAttributeValue(props, "layout_margin", "0")
        marginLeft == OrElse(getAttributeValue(props, "layout_marginLeft", ""),
                      OrElse(getAttributeValue(props, "layout_marginStart", ""),
                             margin))
        marginRight == OrElse(getAttributeValue(props, "layout_marginRight", ""),
                       OrElse(getAttributeValue(props, "layout_marginEnd", ""),
                              margin))
        marginTop == OrElse(getAttributeValue(props, "layout_marginTop", ""),
                            margin)
        marginBottom == OrElse(getAttributeValue(props, "layout_marginBottom", ""),
                               margin)
    IN  convertLayoutDimension(Str(marginTop)) \o " "
        \o convertLayoutDimension(Str(marginRight)) \o " "
        \o convertLayoutDimension(Str(marginBottom)) \o " "
        \o convertLayoutDimension(Str(marginLeft))

\* getPaddingStyle(props)
getPaddingStyle(props) ==
    LET padding == getAttributeValue(props, "padding", "8px")
        paddingLeft == OrElse(getAttributeValue(props, "paddingLeft", ""),
                       OrElse(getAttributeValue(props, "paddingStart", ""),
                              padding))
        paddingRight == OrElse(getAttributeValue(props, "paddingRight", ""),
                        OrElse(getAttributeValue(props, "paddingEnd", ""),
                               padding))
        paddingTop == OrElse(getAttributeValue(props, "paddingTop", ""), padding)
        paddingBottom == OrElse(getAttributeValue(props, "paddingBottom", ""),
                                padding)
    IN  convertLayoutDimension(Str(paddingTop)) \o " "
        \o convertLayoutDimension(Str(paddingRight)) \o " "
        \o convertLayoutDimension(Str(paddingBottom)) \o " "
        \o convertLayoutDimension(Str(paddingLeft))

\* type.split('.').pop() || type
elementNameOf(type) ==
    OrElse(SubSeq(type, LastIndexOf(type, ".") + 1, Len(type)), type)

\* the placeholder content of renderLayoutElement for the view kind of type
viewContent(type, props) ==
    IF Includes(type, "TextView")
    THEN "<div class=\"text-content\" style=\"color: "
         \o getAttributeValue(props, "textColor", "#FFFFFF")
         \o "; font-size: "
         \o Replace(getAttributeValue(props, "textSize", "14sp"), "sp", "px")
         \o "; background: "
         \o getAttributeValue(props, "background", "transparent")
         \o ";\">" \o getAttributeValue(props, "text", "[Text]") \o "</div>"
    ELSE IF Includes(type, "Button") \/ Includes(type, "FloatingActionButton")
    THEN LET src == getAttributeValue(props, "src", "")
             icon == IF src # "" THEN "[" \o src \o "]" ELSE ""
             text == OrElse(getAttributeValue(props, "contentDescription", ""),
                     OrElse(getAttributeValue(props, "text", ""),
                     OrElse(icon, "[Button]")))
         IN  "<div class=\"button-content\">" \o text \o "</div>"
    ELSE IF Includes(type, "ImageView") \/ Includes(type, "PreviewView")
    THEN "<div class=\"image-placeholder\">[Image]</div>"
    ELSE ""

\* style.replace(/transform:[^;]+;/g, '')
RECURSIVE RemoveTransforms(_)
RemoveTransforms(s) ==
    IF FindFrom(s, "transform:", 1) = 0 THEN s
    ELSE IF FindFrom(s, ";", FindFrom(s, "transform:", 1) + 11) = 0 THEN s
    ELSE SubSeq(s, 1, FindFrom(s, "transform:", 1) - 1)
         \o RemoveTransforms(
                SubSeq(s, FindFrom(s, ";", FindFrom(s, "transform:", 1) + 11) + 1,
                       Len(s)))

\* the constraints renderLayoutElement collects from props
constraintsOf(props, id) ==
    [id |-> id,
     leftToLeft |->
        OrElse(getAttributeValue(props, "layout_constraintLeft_toLeftOf", ""),
               getAttributeValue(props, "layout_constraintStart_toStartOf", "")),
     rightToRight |->
        OrElse(getAttributeValue(props, "layout_constraintRight_toRightOf", ""),
               getAttributeValue(props, "layout_constraintEnd_toEndOf", "")),
     topToTop |-> getAttributeValue(props, "layout_constraintTop_toTopOf", ""),
     bottomToBottom |->
        getAttributeValue(props, "layout_constraintBottom_toBottomOf", ""),
     horizontalBias |->
        ParseFloat(getAttributeValue(props, "layout_constraintHorizontal_bias",
                                     "0.5")),
     verticalBias |->
        ParseFloat(getAttributeValue(props, "layout_constraintVertical_bias",
                                     "0.5"))]

\* the horizontal part calculateConstraintStyle appends
horizontalStyle(constraints) ==
    IF constraints.leftToLeft = "parent" /\ constraints.rightToRight = "parent"
    THEN "left: " \o toString(Times100(constraints.horizontalBias))
         \o "%;transform: translateX(-50%);"
    ELSE IF constraints.leftToLeft = "parent" THEN "left: 0;"
    ELSE IF constraints.rightToRight = "parent" THEN "right: 0;"
    ELSE ""

\* the vertical part calculateConstraintStyle appends
verticalStyle(constraints) ==
    IF constraints.topToTop = "parent" /\ constraints.bottomToBottom = "parent"
    THEN "top: " \o toString(Times100(constraints.verticalBias))
         \o "%;transform: translateY(-50%);"
    ELSE IF constraints.topToTop = "parent" THEN "top: 0;"
    ELSE IF constraints.bottomToBottom = "parent" THEN "bottom: 0;"
    ELSE ""

\* the style before the centering of both axes is combined
placedStyle(constraints, width, height, margin, padding) ==
    "position: absolute;width: " \o width \o ";height: " \o height
    \o ";margin: " \o margin \o ";padding: " \o padding \o ";"
    \o horizontalStyle(constraints) \o verticalStyle(constraints)

\* calculateConstraintStyle that keeps the transforms of the two axes
calculateConstraintStyle_noCombine(constraints, width, height, margin, padding) ==
    placedStyle(constraints, width, height, margin, padding)

\* calculateConstraintStyle(constraints, width, height, margin, padding);
\* the declarations are kept, the white space between them is not
calculateConstraintStyle(constraints, width, height, margin, padding) ==
    IF /\ constraints.leftToLeft = "parent"
       /\ constraints.rightToRight = "parent"
       /\ constraints.topToTop = "parent"
       /\ constraints.bottomToBottom = "parent"
    THEN RemoveTransforms(placedStyle(constraints, width, height, margin, padding))
         \o "transform: translate(-50%, -50%);"
    ELSE placedStyle(constraints, width, height, margin, padding)

\* the id of renderLayoutElement: the id attribute without its @+id/ prefix
idOf(props) ==
    IF StartsWith(getAttributeValue(props, "id", ""), "@+id/")
    THEN SubSeq(getAttributeValue(props, "id", ""), 6,
                Len(getAttributeValue(props, "id", "")))
    ELSE getAttributeValue(props, "id", "")

\* renderLayoutElement(type, props, viewMap); props is not undefined.
RECURSIVE renderLayoutElement(_, _)
renderLayoutElement(type, props) ==
    LET id == idOf(props)
        style == calculateConstraintStyle(
                     constraintsOf(props, idOf(props)),
                     convertLayoutDimension(
                         Str(getAttributeValue(props, "layout_width", ""))),
                     convertLayoutDimension(
                         Str(getAttributeValue(props, "layout_height", ""))),
                     getMarginStyle(props),
                     getPaddingStyle(props))
        keys == IF props.t = "object" THEN props.keys ELSE <<>>
        child(key) ==
            LET value == props.o[key]
            IN  IF /\ value.t = "array"
                   /\ Len(value.a) > 0
                   /\ value.a[1].t \in {"object", "array"}
                   /\ ~StartsWith(key, "@_")
                THEN renderLayoutElement(key, value.a[1])
                ELSE ""
        content == viewContent(type, props)
                   \o Concat([i \in 1..Len(keys) |-> child(keys[i])])
        isConstraint == Includes(type, "ConstraintLayout")
    IN  "<div class=\"layout-element"
        \o (IF isConstraint THEN " constraint-layout" ELSE "")
        \o "\" style=\"" \o style
        \o (IF isConstraint THEN "position: relative;" ELSE "")
        \o "\"" \o (IF id # "" THEN " id=\"" \o id \o "\"" ELSE "") \o ">"
        \o "<span class=\"element-type\">" \o elementNameOf(type) \o "</span>"
        \o (IF id # "" THEN "<span class=\"element-id\">#" \o id \o "</span>"
            ELSE "")
        \o content \o "</div>"

\* convertLayoutToHtml(type, props)
convertLayoutToHtml(type, props) ==
    "<div class=\"layout-root\">" \o renderLayoutElement(type, props) \o "</div>"

\* The documents shown on the panel.  kind names the shell that wraps the
\* content: getVectorDrawableHtml, getLayoutPreviewHtml or getErrorHtml.
NoHtml == [kind |-> "none", content |-> ""]
getVectorDrawableHtml(svg) == [kind |-> "vector", content |-> svg]
getLayoutPreviewHtml(layoutContent) == [kind |-> "layout", content |-> layoutContent]
getErrorHtml(message) == [kind |-> "error", content |-> message]

\* isLayoutKey with one more substring, "group", in the heuristic
isLayoutKey_group(key) ==
    LET normalizedKey == toLowerCase(key)
    IN  \/ Includes(normalizedKey, "layout")
        \/ Includes(normalizedKey, "constraint")
        \/ Includes(normalizedKey, "linear")
        \/ Includes(normalizedKey, "relative")
        \/ Includes(normalizedKey, "frame")
        \/ Includes(normalizedKey, "coordinator")
        \/ Includes(normalizedKey, "group")

\* the predicate of the find() that selects the layout root
isLayoutKey(key) ==
    LET normalizedKey == toLowerCase(key)
    IN  \/ Includes(normalizedKey, "layout")
        \/ Includes(normalizedKey, "constraint")
        \/ Includes(normalizedKey, "linear")
        \/ Includes(normalizedKey, "relative")
        \/ Includes(normalizedKey, "frame")
        \/ Includes(normalizedKey, "coordinator")

Thrown(message) == [thrown |-> TRUE, message |-> message, html |-> NoHtml]
Returned(html) == [thrown |-> FALSE, message |-> "", html |-> html]

\* The layout branch of updatePreview: rootProps is parsed[rootType], the
\* element rendered is rootProps[0]; reading a property of undefined throws.
convertLayout(rootType, rootProps) ==
    IF rootProps.t = "array" /\ Len(rootProps.a) > 0
    THEN Returned(getLayoutPreviewHtml(
                     convertLayoutToHtml(rootType, rootProps.a[1])))
    ELSE Thrown("Cannot read properties of undefined")

\* updatePreview from the parsed object to the document it is about to
\* assign; found lists the keys of parsed the find() predicate accepts.
convertParsed(parsed, found) ==
    IF ~Falsy(Prop(parsed, "vector"))
    THEN Returned(getVectorDrawableHtml(
                     convertVectorToSVG(Prop(parsed, "vector"))))
    ELSE IF Len(found) = 0 THEN Thrown("No valid root element found")
    ELSE convertLayout(found[1], parsed.o[found[1]])

\* the test that selects the parser configuration
isVectorDrawable(xml) ==
    Includes(xml, "android:viewportWidth") \/ Includes(xml, "android:pathData")

\* parser.parse under the configuration the text selects
parse(doc) == ParseDoc(doc, isVectorDrawable(xmlString(doc)))

\* The body of the try block of updatePreview after the read, up to the
\* document it is about to assign to the panel: either the document, or the
\* error thrown on the way.
convert(doc) ==
    IF ~doc.wellFormed THEN Thrown("Unexpected end of input")
    ELSE convertParsed(parse(doc), SelectSeq(parse(doc).keys, isLayoutKey))

-----------------------------------------------------------------------------
(* Inputs: the documents a file may hold, the files, the editors           *)

VectorDoc ==
    Doc(TRUE, Elem("vector",
                   << <<"android:viewportWidth", "24">>,
                      <<"android:viewportHeight", "24">> >>,
                   << Elem("path", << <<"android:pathData", "M0 0L24 24">>,
                                      <<"android:fillColor", "#FF0000">> >>,
                           <<>>) >>))

LayoutDoc ==
    Doc(TRUE, Elem("LinearLayout",
                   << <<"android:layout_width", "match_parent">> >>,
                   << Elem("TextView", << <<"android:text", "Hi">> >>, <<>>) >>))

RandomDoc ==
    Doc(TRUE, Elem("SomeRandomViewGroup", << <<"android:id", "@+id/x">> >>, <<>>))

RandomPathDoc ==
    Doc(TRUE, Elem("custom:Sketch", << <<"android:pathData", "M0 0">> >>, <<>>))

FramePathDoc ==
    Doc(TRUE, Elem("FrameLayout", << <<"android:pathData", "M0 0">> >>, <<>>))

BrokenDoc ==
    Doc(FALSE, Elem("LinearLayout", <<>>, <<>>))

Docs == {VectorDoc, LayoutDoc, RandomDoc, RandomPathDoc, FramePathDoc, BrokenDoc}

Uris == {"file:///res/a.xml", "file:///res/b.xml"}

NoEditor == "none"

\* convert, tabulated over the documents
converted == [d \in Docs |-> convert(d)]

-----------------------------------------------------------------------------
(* The preview panel: createOrShow, updatePreview, the vector shell        *)

\* The DOM state the inline script of a shell keeps: the inline width and
\* height of .svg-container and the text of #size-display.
NoShell == [width |-> "", height |-> "", text |-> ""]

\* Loading a document into the webview.  The script of the vector shell sets
\* the initial size on load; the display starts as the markup has it.
loadShell(html) ==
    IF html.kind = "vector"
    THEN [width |-> "200px", height |-> "200px", text |-> "200px"]
    ELSE NoShell

\* the controls the body of each shell contains
shellControls(html) ==
    IF html.kind = "vector" THEN {"-", "+"} ELSE {}

Max(a, b) == IF a >= b THEN a ELSE b
Min(a, b) == IF a <= b THEN a ELSE b

\* adjustSize without the lower clamp
adjustSize_noMin(shell, delta) ==
    LET parsed == ParseIntStr(shell.width)
        currentSize == IF Falsy(parsed) THEN 200 ELSE parsed.n
        newSize == Min(400, currentSize + delta)
    IN  [width |-> NumToString(newSize) \o "px",
         height |-> NumToString(newSize) \o "px",
         text |-> NumToString(newSize) \o "px"]

\* adjustSize(delta) of the vector shell
adjustSize(shell, delta) ==
    LET parsed == ParseIntStr(shell.width)
        currentSize == IF Falsy(parsed) THEN 200 ELSE parsed.n
        newSize == Max(100, Min(400, currentSize + delta))
    IN  [width |-> NumToString(newSize) \o "px",
         height |-> NumToString(newSize) \o "px",
         text |-> NumToString(newSize) \o "px"]

NewPanel(uri) ==
    [uri |-> uri, open |-> TRUE, subscribed |-> TRUE, html |-> NoHtml,
     shell |-> NoShell, changes |-> 0]

\* A call of updatePreview up to its await of readFile.  event records what
\* started the run: <<>> for the call of createOrShow, <<text>> for a change
\* event, text being the text of the document when the event fired.
NewRun(p, event) ==
    [panel |-> p, pc |-> "reading", read |-> "pending", text |-> <<>>,
     event |-> event,
     attempts |-> 0, writes |-> 0, rejected |-> FALSE, out |-> NoHtml]

\* a change listener that does not compare the URIs
shouldUpdate_any(eventUri, uri) == TRUE

\* the test of the change listener: e.document.uri.toString() === uri.toString()
shouldUpdate(eventUri, uri) == eventUri = uri

\* an onDidDispose listener that leaves the subscription alone
onDidDispose_keep(panel) == panel

\* the onDidDispose listener: changeDocumentSubscription.dispose()
onDidDispose(panel) == [panel EXCEPT !.subscribed = FALSE]

\* The outcome of the try block of a run whose read has completed, up to the
\* assignment of the document.
tryBlock(run) ==
    IF run.read = "failed" THEN Thrown("Unable to read file")
    ELSE converted[run.text[1]]

\* what the catch block of updatePreview assigns for an error message
errorHtmlOf(message) ==
    getErrorHtml("Failed to process XML: " \o OrElse(message, "Unknown error"))

\* updatePreview whose catch block only logs the error
updatePreviewResume_logOnly(panel, run, try) ==
    [panel |-> IF ~try.thrown /\ panel.open
               THEN [panel EXCEPT !.html = try.html,
                                  !.shell = loadShell(try.html)]
               ELSE panel,
     run |-> [run EXCEPT !.pc = "done",
                         !.attempts = IF try.thrown THEN 0 ELSE 1,
                         !.writes = IF ~try.thrown /\ panel.open THEN 1 ELSE 0,
                         !.rejected = FALSE,
                         !.out = try.html]]

\* updatePreview from the completion of readFile to its end, for a run whose
\* read has completed, on the panel as it is now; try is the outcome of the
\* try block up to the assignment.  Assigning webview.html of a disposed
\* panel throws: the assignment of the try block is attempted when nothing
\* was thrown before it, that of the catch block when the try block threw
\* (the assignment included).  The result is the panel and the run afterwards.
updatePreviewResume(panel, run, try) ==
    [panel |-> IF panel.open
               THEN [panel EXCEPT
                        !.html = IF try.thrown THEN errorHtmlOf(try.message)
                                 ELSE try.html,
                        !.shell = loadShell(IF try.thrown
                                            THEN errorHtmlOf(try.message)
                                            ELSE try.html)]
               ELSE panel,
     run |-> [run EXCEPT !.pc = "done",
                         !.attempts = (IF try.thrown THEN 0 ELSE 1)
                                      + (IF try.thrown \/ ~panel.open
                                         THEN 1 ELSE 0),
                         !.writes = IF panel.open THEN 1 ELSE 0,
                         !.rejected = ~panel.open,
                         !.out = IF try.thrown THEN errorHtmlOf(try.message)
                                 ELSE try.html]]

Init ==
    /\ disk = [u \in Uris |-> IF u = "file:///res/a.xml" THEN VectorDoc ELSE LayoutDoc]
    /\ buffer = disk
    /\ panels = <<>>
    /\ runs = <<>>
    /\ edits = 0
    /\ messages = {}
    /\ dimRaw = "absent"
    /\ dimIn = Undefined
    /\ dimBy = "none"
    /\ dimOut = Undefined
    /\ renIn = Undefined
    /\ renBy = "none"
    /\ renOut = Undefined
    /\ layout = Undefined
    /\ measured = <<>>

\* the command with a createOrShow that does not start the initial conversion
OpenPreview_noRun(activeEditor) ==
    /\ IF activeEditor # NoEditor
       THEN /\ Len(panels) < MaxPanels
            /\ Len(runs) < MaxRuns
            /\ panels' = Append(panels, NewPanel(activeEditor))
            /\ UNCHANGED <<runs, messages>>
       ELSE /\ messages' = messages \cup {"Please open an XML file first"}
            /\ UNCHANGED <<panels, runs>>
    /\ UNCHANGED <<disk, buffer, edits, dimVars, renVars, viewVars>>

\* The command xmlVectorViewer.openPreview registered by activate;
\* activeEditor is the document of window.activeTextEditor when the command
\* runs, NoEditor when there is none.
OpenPreview(activeEditor) ==
    /\ IF activeEditor # NoEditor
       THEN /\ Len(panels) < MaxPanels
            /\ Len(runs) < MaxRuns
            /\ panels' = Append(panels, NewPanel(activeEditor))
            /\ runs' = Append(runs, NewRun(Len(panels) + 1, <<>>))
            /\ UNCHANGED messages
       ELSE /\ messages' = messages \cup {"Please open an XML file first"}
            /\ UNCHANGED <<panels, runs>>
    /\ UNCHANGED <<disk, buffer, edits, dimVars, renVars, viewVars>>

\* the panels whose change listener starts a run for an event on uri u
Listeners(u) ==
    {p \in 1..Len(panels) : panels[p].subscribed /\ shouldUpdate(u, panels[p].uri)}

RECURSIVE StartRuns(_, _, _, _)
StartRuns(rs, p, ps, text) ==
    IF p > Len(panels) THEN rs
    ELSE StartRuns(IF p \in ps THEN Append(rs, NewRun(p, <<text>>)) ELSE rs,
                   p + 1, ps, text)

\* onDidChangeTextDocument fires for document u: every live listener runs;
\* changes counts, per open panel, the events for the panel's own document
Notify(u, text) ==
    /\ Len(runs) + Cardinality(Listeners(u)) <= MaxRuns
    /\ runs' = StartRuns(runs, 1, Listeners(u), text)
    /\ panels' = [p \in 1..Len(panels) |->
                    IF panels[p].open /\ panels[p].uri = u
                    THEN [panels[p] EXCEPT !.changes = @ + 1]
                    ELSE panels[p]]

\* the user edits document u in the editor (not saved)
Edit(u, d) ==
    /\ edits < MaxEdits
    /\ d # buffer[u]
    /\ buffer' = [buffer EXCEPT ![u] = d]
    /\ edits' = edits + 1
    /\ Notify(u, d)
    /\ UNCHANGED <<disk, messages, dimVars, renVars, viewVars>>

\* the user saves document u: the file takes the text of the editor and the
\* dirty state of the document changes, which fires the change event too
Save(u) ==
    /\ buffer[u] # disk[u]
    /\ disk' = [disk EXCEPT ![u] = buffer[u]]
    /\ Notify(u, buffer[u])
    /\ UNCHANGED <<buffer, edits, messages, dimVars, renVars, viewVars>>

\* readFile of run r completes, with the stored content or with a failure
ReadComplete(r, ok) ==
    /\ runs[r].pc = "reading"
    /\ runs' = [runs EXCEPT ![r].pc = "read",
                            ![r].read = IF ok THEN "ok" ELSE "failed",
                            ![r].text = IF ok THEN <<disk[panels[runs[r].panel].uri]>>
                                        ELSE <<>>]
    /\ UNCHANGED <<disk, buffer, panels, edits, messages, dimVars, renVars, viewVars>>

\* run r resumes after its await and runs to the end of updatePreview
Resume(r) ==
    /\ runs[r].pc = "read"
    /\ LET res == updatePreviewResume(panels[runs[r].panel], runs[r],
                                      tryBlock(runs[r]))
       IN  /\ panels' = [panels EXCEPT ![runs[r].panel] = res.panel]
           /\ runs' = [runs EXCEPT ![r] = res.run]
    /\ UNCHANGED <<disk, buffer, edits, messages, dimVars, renVars, viewVars>>

\* the user closes panel p
ClosePanel(p) ==
    /\ panels[p].open
    /\ panels' = [panels EXCEPT ![p] = onDidDispose([panels[p] EXCEPT !.open = FALSE])]
    /\ UNCHANGED <<disk, buffer, runs, edits, messages, dimVars, renVars, viewVars>>

\* the user clicks a control of the shell shown on panel p
Click(p, delta) ==
    /\ panels[p].open
    /\ (IF delta < 0 THEN "-" ELSE "+") \in shellControls(panels[p].html)
    /\ panels' = [panels EXCEPT ![p].shell = adjustSize(@, delta)]
    /\ UNCHANGED <<disk, buffer, runs, edits, messages, dimVars, renVars, viewVars>>

Next ==
    \/ \E e \in Uris \cup {NoEditor} : OpenPreview(e)
    \/ \E u \in Uris, d \in Docs : Edit(u, d)
    \/ \E u \in Uris : Save(u)
    \/ \E r \in 1..Len(runs), ok \in BOOLEAN : ReadComplete(r, ok)
    \/ \E r \in 1..Len(runs) : Resume(r)
    \/ \E p \in 1..Len(panels) : ClosePanel(p)

Spec == Init /\ [][Next]_vars

\* a pending run takes its next step
Progress ==
    \/ \E r \in 1..Len(runs), ok \in BOOLEAN : ReadComplete(r, ok)
    \/ \E r \in 1..Len(runs) : Resume(r)

\* The host completes every read and resumes every run whose read has
\* completed: as long as a run is pending, one of them takes a step.
Fairness == WF_vars(Progress)

FairSpec == Spec /\ Fairness

\* One preview panel with the user clicking the controls of its shell.
ShellNext ==
    \/ \E e \in Uris \cup {NoEditor} : panels = <<>> /\ OpenPreview(e)
    \/ \E u \in Uris, d \in Docs : Edit(u, d)
    \/ \E u \in Uris : Save(u)
    \/ \E r \in 1..Len(runs), ok \in BOOLEAN : ReadComplete(r, ok)
    \/ \E r \in 1..Len(runs) : Resume(r)
    \/ \E p \in 1..Len(panels) : ClosePanel(p)
    \/ \E p \in 1..Len(panels), delta \in {-20, 20} : Click(p, delta)

ShellSpec == Init /\ [][ShellNext]_vars

-----------------------------------------------------------------------------
(* Dimension resolution applied to one layout_width attribute              *)

Absent == "absent"

\* the attribute texts tried
RawDims ==
    {"wrap_content", "match_parent", "fill_parent", "", "abc"}
    \cup {NumToString(n) \o suffix : n \in (-2)..MaxPx, suffix \in {"", "dp", "sp"}}

\* the value the parser hands over for the attribute text raw: typed when
\* parseAttributeValue is set, the text itself otherwise
Arrive(raw, parseAttributeValue) ==
    IF raw = Absent THEN Undefined
    ELSE IF parseAttributeValue THEN ParseAttributeValue(raw)
    ELSE Str(raw)

\* renderLayoutElement of extension.ts resolves the width of a node:
\* convertLayoutDimension(getAttributeValue(props, 'layout_width'))
ResolveLayoutWidth(raw, parseAttributeValue) ==
    LET value == Arrive(raw, parseAttributeValue)
        props == IF raw = Absent THEN Str("")
                 ELSE Obj(<<"@_android:layout_width">>,
                          ("@_android:layout_width" :> value))
    IN  /\ dimRaw' = raw
        /\ dimIn' = value
        /\ dimBy' = "convertLayoutDimension"
        /\ dimOut' = Str(convertLayoutDimension(
                             Str(getAttributeValue(props, "layout_width", ""))))
        /\ UNCHANGED <<previewVars, renVars, viewVars>>

\* createViewAttributes of part_002 resolves the width of a view:
\* parseDimension(attrs.layout_width)
ParseViewWidth(raw, parseAttributeValue) ==
    LET value == Arrive(raw, parseAttributeValue)
    IN  /\ dimRaw' = raw
        /\ dimIn' = value
        /\ dimBy' = "parseDimension"
        /\ dimOut' = parseDimension(value)
        /\ UNCHANGED <<previewVars, renVars, viewVars>>

\* createViewAttributes of part_002 resolves a pixel attribute of a view
\* (layout_margin, padding, textSize): parsePixelValue(attrs.layout_margin)
ParseViewMargin(raw, parseAttributeValue) ==
    LET value == Arrive(raw, parseAttributeValue)
    IN  /\ dimRaw' = raw
        /\ dimIn' = value
        /\ dimBy' = "parsePixelValue"
        /\ dimOut' = parsePixelValue(value)
        /\ UNCHANGED <<previewVars, renVars, viewVars>>

DimNext ==
    \/ \E raw \in RawDims \cup {Absent}, pav \in BOOLEAN :
          ResolveLayoutWidth(raw, pav)
    \/ \E raw \in RawDims \cup {Absent}, pav \in BOOLEAN :
          ParseViewWidth(raw, pav)
    \/ \E raw \in RawDims \cup {Absent}, pav \in BOOLEAN :
          ParseViewMargin(raw, pav)

DimSpec == Init /\ [][DimNext]_vars

-----------------------------------------------------------------------------
(* The converters applied to one input                                     *)

\* The object the parser builds for an element that carries the attributes
\* names[i] = texts[i] (Absent: not declared) under the android prefix, when
\* prefixes are kept.
PropsOf(names, texts) ==
    LET present == SelectSeq([i \in 1..Len(names) |-> i],
                             LAMBDA i : texts[i] # Absent)
        keys == [j \in 1..Len(present) |-> "@_android:" \o names[present[j]]]
    IN  IF Len(keys) = 0 THEN Str("")
        ELSE Obj(keys,
                 [k \in {keys[j] : j \in 1..Len(keys)} |->
                    ParseAttributeValue(
                       texts[CHOOSE i \in 1..Len(names) :
                                "@_android:" \o names[i] = k])])

\* uniform, left, start, right, end, top, bottom
MarginNames ==
    <<"layout_margin", "layout_marginLeft", "layout_marginStart",
      "layout_marginRight", "layout_marginEnd", "layout_marginTop",
      "layout_marginBottom">>

PaddingNames ==
    <<"padding", "paddingLeft", "paddingStart", "paddingRight", "paddingEnd",
      "paddingTop", "paddingBottom">>

SideTexts == {Absent, "", "0", "0dp", "4dp"}
DirTexts == {Absent, "8dp"}
UniformTexts == {Absent, "16dp"}

\* the elements tried by the spacing converters
SpacingProps ==
    {PropsOf(names, <<u, l, s, r, e, t, b>>) :
        names \in {MarginNames, PaddingNames},
        u \in UniformTexts, l \in SideTexts, s \in DirTexts,
        r \in SideTexts, e \in DirTexts, t \in SideTexts, b \in SideTexts}

\* the attributes names[i] = texts[i] of an element, in document order,
\* under the android prefix (Absent: not declared)
AttrsOf(names, texts) ==
    LET present == SelectSeq([i \in 1..Len(names) |-> i],
                             LAMBDA i : texts[i] # Absent)
    IN  [j \in 1..Len(present) |->
            <<"android:" \o names[present[j]], texts[present[j]]>>]

\* the path elements tried
PathElems ==
    {Elem("path", AttrsOf(<<"pathData", "fillColor", "fillAlpha">>,
                          <<d, c, a>>), <<>>) :
        d \in {Absent, "M0 0L24 24", "M1 1"},
        c \in {Absent, "#FF0000"},
        a \in {Absent, "0.3", "1.5"}}

\* the group elements tried: a group with a translation, a rotation and a
\* pivot around one path, and a group nested in a group
GroupElems ==
    LET inner == Elem("group",
                      AttrsOf(<<"rotation", "pivotX", "pivotY">>,
                              <<"90", "12", "12">>),
                      <<Elem("path", << <<"android:pathData", "M2 2">> >>, <<>>)>>)
    IN  {inner,
         Elem("group",
              AttrsOf(<<"translateX", "translateY">>, <<"4", "6">>),
              <<Elem("path", << <<"android:pathData", "M3 3">> >>, <<>>),
                inner>>)}

\* the vector documents tried: the viewport (width, height), the size
\* (width, height) and the alpha declared or not, with up to two paths, or
\* with a group after at most one path
VectorDocs ==
    {Doc(TRUE, Elem("vector",
                    AttrsOf(<<"width", "height", "viewportWidth",
                              "viewportHeight", "alpha">>,
                            <<size[1], size[2], viewport[1], viewport[2],
                              alpha>>),
                    kids)) :
        size \in {<<Absent, Absent>>, <<"48dp", "36dp">>},
        viewport \in {<<Absent, Absent>>, <<"24", "32">>, <<"24", Absent>>},
        alpha \in {Absent, "0.5", "2"},
        kids \in {<<>>} \cup {<<q>> : q \in PathElems}
                 \cup {<<q, r>> : q \in PathElems, r \in PathElems}
                 \cup {<<Elem("clip-path", <<>>, <<>>)>>}
                 \cup {<<g>> : g \in GroupElems}
                 \cup {<<Elem("path", << <<"android:pathData", "M1 1">> >>, <<>>),
                          g>> : g \in GroupElems}}

\* left, start, right, top, bottom anchor; horizontal and vertical bias
ConstraintNames ==
    <<"layout_constraintLeft_toLeftOf", "layout_constraintStart_toStartOf",
      "layout_constraintRight_toRightOf", "layout_constraintTop_toTopOf",
      "layout_constraintBottom_toBottomOf", "layout_constraintHorizontal_bias",
      "layout_constraintVertical_bias">>

AnchorTexts == {Absent, "parent", "@id/a"}

\* the elements tried by the placement: every combination of anchors, with
\* and without a bias
ConstraintProps ==
    {PropsOf(ConstraintNames, <<l, s, r, t, b, hb, vb>>) :
        l \in AnchorTexts, s \in {Absent, "parent"}, r \in AnchorTexts,
        t \in AnchorTexts, b \in AnchorTexts,
        hb \in {Absent, "0.25", "0.75", "abc"}, vb \in {Absent, "0.25"}}

\* the children tried in a layout document
LayoutKids ==
    {<<>>,
     <<Elem("TextView", <<>>, <<>>)>>,
     <<Elem("TextView", << <<"android:text", "Hi">> >>, <<>>)>>,
     <<Elem("TextView", << <<"android:text", "42">> >>, <<>>)>>,
     <<Elem("TextView", << <<"android:text", "Hi">>,
                           <<"android:layout_width", "100dp">> >>, <<>>)>>,
     <<Elem("ImageView", << <<"android:contentDescription", "Hi">> >>, <<>>),
       Elem("TextView", << <<"android:text", "Yo">> >>, <<>>)>>,
     <<Elem("com.example.SketchView",
            << <<"android:pathData", "M0 0">> >>, <<>>)>>,
     <<Elem("TextView", << <<"android:text", "A">> >>, <<>>),
       Elem("TextView", << <<"android:text", "B">> >>, <<>>)>>,
     <<Elem("Button", << <<"android:layout_width", "abc">>,
                         <<"android:layout_constraintHorizontal_bias", "abc">>,
                         <<"android:id", "">> >>, <<>>)>>,
     <<Elem("TextView", << <<"android:text", "A">> >>,
            <<Elem("ImageView", << <<"android:src", "@drawable/a">> >>, <<>>)>>)>>,
     <<Elem("FrameLayout", << <<"android:id", "@+id/box">> >>,
            <<Elem("Button", << <<"android:text", "Go">> >>,
                   <<Elem("View", << <<"android:id", "@+id/dot">> >>, <<>>)>>)>>),
       Elem("ImageView", << <<"android:src", "@drawable/a">> >>, <<>>)>>}

\* the layout documents tried: a root whose tag is layout-like, with and
\* without attributes
LayoutDocs ==
    {Doc(TRUE, Elem(tag, attrs, kids)) :
        tag \in {"LinearLayout", "FrameLayout", "my.CoordinatorPane"},
        attrs \in {<<>>,
                   << <<"android:layout_width", "match_parent">> >>,
                   << <<"android:contentDescription", "android:viewportWidth">> >>},
        kids \in LayoutKids}

\* the tags tried for the view kinds: text, button, image and other
ViewTypes ==
    {"TextView", "Button",
     "com.google.android.material.floatingactionbutton.FloatingActionButton",
     "ImageView", "androidx.camera.view.PreviewView", "View"}

ContentNames == <<"text", "contentDescription", "src">>

\* the nodes tried by the placeholder content: a tag with the text, the
\* contentDescription and the src declared or not
ViewNodes ==
    [type : ViewTypes,
     props : {PropsOf(ContentNames, <<t, c, i>>) :
                 t \in {Absent, "", "Hi"}, c \in {Absent, "Desc"},
                 i \in {Absent, "@drawable/a"}}]

\* documents whose comment names an attribute of vector drawables
CommentedDocs ==
    {Commented("TODO android:pathData", Elem("vector", attrs, <<>>)) :
        attrs \in {<<>>, << <<"android:width", "48dp">> >>}}

RenInputs ==
    [kind : {"props"}, v : SpacingProps]
    \cup [kind : {"doc"}, v : VectorDocs \cup LayoutDocs \cup CommentedDocs]
    \cup [kind : {"node"}, v : ConstraintProps]
    \cup [kind : {"view"}, v : ViewNodes]

RenInit ==
    /\ disk = [u \in Uris |-> IF u = "file:///res/a.xml" THEN VectorDoc ELSE LayoutDoc]
    /\ buffer = disk
    /\ panels = <<>>
    /\ runs = <<>>
    /\ edits = 0
    /\ messages = {}
    /\ dimRaw = "absent"
    /\ dimIn = Undefined
    /\ dimBy = "none"
    /\ dimOut = Undefined
    /\ renIn \in RenInputs
    /\ renBy = "none"
    /\ renOut = Undefined
    /\ layout = Undefined
    /\ measured = <<>>

\* renderLayoutElement computes the margin of its element
GetMarginStyle ==
    /\ renBy = "none"
    /\ renIn.kind = "props"
    /\ renBy' = "getMarginStyle"
    /\ renOut' = Str(getMarginStyle(renIn.v))
    /\ UNCHANGED <<previewVars, dimVars, renIn, viewVars>>

\* renderLayoutElement computes the padding of its element
GetPaddingStyle ==
    /\ renBy = "none"
    /\ renIn.kind = "props"
    /\ renBy' = "getPaddingStyle"
    /\ renOut' = Str(getPaddingStyle(renIn.v))
    /\ UNCHANGED <<previewVars, dimVars, renIn, viewVars>>

\* updatePreview converts the text of a document it has read
Convert ==
    /\ renBy = "none"
    /\ renIn.kind = "doc"
    /\ renBy' = "updatePreview"
    /\ renOut' = convert(renIn.v)
    /\ UNCHANGED <<previewVars, dimVars, renIn, viewVars>>

\* renderLayoutElement renders a node of the layout
RenderLayoutElement ==
    /\ renBy = "none"
    /\ renIn.kind = "node"
    /\ renBy' = "renderLayoutElement"
    /\ renOut' = Str(renderLayoutElement("View", renIn.v))
    /\ UNCHANGED <<previewVars, dimVars, renIn, viewVars>>

\* renderLayoutElement renders a node of a given tag
RenderView ==
    /\ renBy = "none"
    /\ renIn.kind = "view"
    /\ renBy' = "renderLayoutElement(type)"
    /\ renOut' = Str(renderLayoutElement(renIn.v.type, renIn.v.props))
    /\ UNCHANGED <<previewVars, dimVars, renIn, viewVars>>

RenNext ==
    \/ GetMarginStyle
    \/ GetPaddingStyle
    \/ Convert
    \/ RenderLayoutElement
    \/ RenderView

RenSpec == RenInit /\ [][RenNext]_vars

-----------------------------------------------------------------------------
(* The view tree of part_000 and its measure pass                          *)

\* The attributes object parseView of part_002 builds for an element that
\* carries the attributes names[i] = texts[i] (Absent: not declared): the
\* key is the attribute name, the value is typed by the parser.
AttributesOf(names, texts) ==
    LET present == SelectSeq([i \in 1..Len(names) |-> i],
                             LAMBDA i : texts[i] # Absent)
        keys == [j \in 1..Len(present) |-> names[present[j]]]
    IN  Obj(keys,
            [k \in {keys[j] : j \in 1..Len(keys)} |->
                ParseAttributeValue(
                   texts[CHOOSE i \in 1..Len(names) : names[i] = k])])

\* the class createView instantiates for a parsed view of the type
classOf(type) ==
    CASE toLowerCase(type) = "textview" -> "TextView"
      [] toLowerCase(type) \in {"button", "floatingactionbutton"} -> "Button"
      [] toLowerCase(type) \in {"imageview", "previewview"} -> "ImageView"
      [] toLowerCase(type) = "constraintlayout" -> "ConstraintLayout"
      [] OTHER -> "View"

\* view instanceof ViewGroup
isViewGroup(class) == class \in {"ViewGroup", "ConstraintLayout"}

\* AndroidXMLParser.createView: the view of a parsed view with the given
\* attributes and the views already created for its children, which are
\* added to a ViewGroup only.  measuredWith logs the specs of the calls of
\* measure on the view.
createView(type, attrs, children) ==
    [class |-> classOf(type),
     attributes |-> [width |-> parseDimension(Prop(attrs, "layout_width")),
                     height |-> parseDimension(Prop(attrs, "layout_height")),
                     text |-> Prop(attrs, "text")],
     measuredWidth |-> Num(0),
     measuredHeight |-> Num(0),
     children |-> IF isViewGroup(classOf(type)) THEN children ELSE <<>>,
     measuredWith |-> <<>>]

\* Math.min on two values
MathMin(a, b) ==
    IF a.t # "number" \/ b.t # "number" THEN NaN
    ELSE IF a.n <= b.n THEN a ELSE b

\* getDesiredSize of View, overridden by TextView (and inherited by Button):
\* text.length * 10 for a truthy text, where the length of a value that is
\* not a string is undefined
getDesiredSize(view) ==
    IF view.class \in {"TextView", "Button"} /\ ~Falsy(view.attributes.text)
    THEN IF view.attributes.text.t = "string"
         THEN Num(Len(view.attributes.text.s) * 10)
         ELSE NaN
    ELSE Num(100)

\* View.resolveSize(size, measureSpec)
resolveSize(view, size, measureSpec) ==
    IF size = Str("match_parent") THEN Num(measureSpec.size)
    ELSE IF size = Str("wrap_content")
    THEN MathMin(getDesiredSize(view), Num(measureSpec.size))
    ELSE size

\* ConstraintLayout.getChildMeasureSpec(parentSpec, child)
getChildMeasureSpec(parentSpec, child) ==
    [size |-> parentSpec.size, mode |-> parentSpec.mode]

\* View.measure(widthMeasureSpec, heightMeasureSpec)
ViewMeasure(view, widthMeasureSpec, heightMeasureSpec) ==
    [view EXCEPT
        !.measuredWidth =
            resolveSize(view, view.attributes.width, widthMeasureSpec),
        !.measuredHeight =
            resolveSize(view, view.attributes.height, heightMeasureSpec)]

\* view.measure(widthMeasureSpec, heightMeasureSpec), dispatched on the
\* class of the view: ConstraintLayout.measure measures every child with its
\* child specs, resolves the constraints (nothing) and calls
\* ViewGroup.measure, which measures the children and calls View.measure.
RECURSIVE measure(_, _, _)
measureAll(children, widthMeasureSpec, heightMeasureSpec) ==
    [i \in 1..Len(children) |->
        measure(children[i], widthMeasureSpec, heightMeasureSpec)]

firstPass(children, widthMeasureSpec, heightMeasureSpec) ==
    [i \in 1..Len(children) |->
        measure(children[i],
                getChildMeasureSpec(widthMeasureSpec, children[i]),
                getChildMeasureSpec(heightMeasureSpec, children[i]))]

measure(view, widthMeasureSpec, heightMeasureSpec) ==
    ViewMeasure(
        [view EXCEPT
            !.measuredWith = Append(@, <<widthMeasureSpec, heightMeasureSpec>>),
            !.children =
                IF view.class = "ConstraintLayout"
                THEN measureAll(firstPass(@, widthMeasureSpec, heightMeasureSpec),
                                widthMeasureSpec, heightMeasureSpec)
                ELSE IF view.class = "ViewGroup"
                THEN measureAll(@, widthMeasureSpec, heightMeasureSpec)
                ELSE @],
        widthMeasureSpec, heightMeasureSpec)

ViewNames == <<"layout_width", "layout_height", "text">>

\* the leaf views tried: a text or an image with the width, the height and
\* the text declared or not
LeafViews ==
    {createView(type, AttributesOf(ViewNames, <<w, h, t>>), <<>>) :
        type \in {"TextView", "ImageView"},
        w \in {Absent, "match_parent", "500"},
        h \in {Absent, "30dp"},
        t \in {Absent, "Hi", "42"}}

\* the layouts tried: a ConstraintLayout around no child, one leaf, a leaf
\* and a button, or a nested ConstraintLayout around a leaf
Layouts ==
    {createView("ConstraintLayout", AttributesOf(ViewNames, <<w, "640dp", Absent>>),
                children) :
        w \in {Absent, "match_parent"},
        children \in
            {<<>>}
            \cup {<<c>> : c \in LeafViews}
            \cup {<<c, createView("Button",
                                  AttributesOf(ViewNames,
                                               <<"wrap_content", "48", "Send now">>),
                                  <<>>)>> : c \in LeafViews}
            \cup {<<createView("ConstraintLayout",
                               AttributesOf(ViewNames,
                                            <<"200dp", "match_parent", Absent>>),
                               <<c>>)>> : c \in LeafViews}}

\* the measure specs tried
WidthSpecs ==
    {[size |-> 360, mode |-> "exactly"], [size |-> 80, mode |-> "at_most"],
     [size |-> 0, mode |-> "unspecified"]}

HeightSpecs ==
    {[size |-> 640, mode |-> "exactly"], [size |-> 20, mode |-> "at_most"]}

ViewInit ==
    /\ disk = [u \in Uris |-> IF u = "file:///res/a.xml" THEN VectorDoc ELSE LayoutDoc]
    /\ buffer = disk
    /\ panels = <<>>
    /\ runs = <<>>
    /\ edits = 0
    /\ messages = {}
    /\ dimRaw = "absent"
    /\ dimIn = Undefined
    /\ dimBy = "none"
    /\ dimOut = Undefined
    /\ renIn = Undefined
    /\ renBy = "none"
    /\ renOut = Undefined
    /\ layout \in Layouts
    /\ measured = <<>>

\* a caller measures the layout: layout.measure(w, h)
Measure(w, h) ==
    /\ Len(measured) < MaxMeasures
    /\ layout' = measure(layout, w, h)
    /\ measured' = Append(measured, <<w, h>>)
    /\ UNCHANGED <<previewVars, dimVars, renVars>>

ViewNext == \E w \in WidthSpecs, h \in HeightSpecs : Measure(w, h)

ViewSpec == ViewInit /\ [][ViewNext]_vars

-----------------------------------------------------------------------------
(* Properties                                                              *)

RunsOf(p) == {r \in 1..Len(runs) : runs[r].panel = p}

\* run r resumes in this step
Resumes(r) == runs[r].pc = "read" /\ runs'[r].pc = "done"

\* the document a conversion of doc is to put on the panel
previewOf(doc) ==
    IF converted[doc].thrown
    THEN getErrorHtml("Failed to process XML: " \o converted[doc].message)
    ELSE converted[doc].html

LayoutWords ==
    {"layout", "constraint", "linear", "relative", "frame", "coordinator"}

\* a well-formed document without a vector root whose root tag contains none
\* of the layout-like substrings
Unrecognized(doc) ==
    /\ doc.wellFormed
    /\ doc.root.tag # "vector"
    /\ \A w \in LayoutWords : ~Includes(toLowerCase(doc.root.tag), w)

\* C1: every error of a conversion run ends as the error document on the
\* panel and the promise of updatePreview never rejects, whether the panel
\* is open or already closed.
C1_NeverRejects ==
    \A r \in 1..Len(runs) :
        runs[r].pc = "done" =>
            /\ ~runs[r].rejected
            /\ runs[r].out.kind = "error" => runs[r].writes = 1

\* C2: a run on an unrecognized document fails with an error, and the error
\* document is what it puts on the panel; it never puts a successful render
\* there and never leaves the panel blank.
C2_UnrecognizedShowsError ==
    [][\A r \in 1..Len(runs) :
          (Resumes(r) /\ runs[r].read = "ok" /\ Unrecognized(runs[r].text[1])) =>
              /\ runs'[r].out.kind = "error"
              /\ panels[runs[r].panel].open =>
                    /\ runs'[r].writes = 1
                    /\ panels'[runs[r].panel].html = runs'[r].out]_vars

C2_Witness ==
    \E r \in 1..Len(runs) :
        /\ runs[r].pc = "done"
        /\ runs[r].read = "ok"
        /\ Unrecognized(runs[r].text[1])
        /\ runs[r].writes = 1
        /\ panels[runs[r].panel].html.kind = "error"

C4_SubscriptionsMatchPanels ==
    /\ {p \in 1..Len(panels) : panels[p].subscribed}
         = {p \in 1..Len(panels) : panels[p].open}
    /\ Cardinality({p \in 1..Len(panels) : panels[p].subscribed})
         = Cardinality({p \in 1..Len(panels) : panels[p].open})

C4_Witness ==
    \E p, q \in 1..Len(panels) :
        /\ ~panels[p].open /\ ~panels[p].subscribed
        /\ panels[q].open /\ panels[q].subscribed

\* C5: once all runs of an open panel have finished, the panel shows the
\* output of the most recently started run.
C5_LatestRunWins ==
    \A p \in 1..Len(panels) :
        (/\ panels[p].open
         /\ RunsOf(p) # {}
         /\ \A r \in RunsOf(p) : runs[r].pc = "done") =>
            panels[p].html =
                runs[CHOOSE r \in RunsOf(p) : \A q \in RunsOf(p) : q <= r].out

\* C6: a panel has started one run plus one per change event for its own
\* document; a change event for another document starts no run for the panel
\* and leaves the panel as it is.
C6_RunsPerPanel ==
    /\ [](\A p \in 1..Len(panels) :
             Cardinality(RunsOf(p)) = 1 + panels[p].changes)
    /\ [][\A u \in Uris : \A p \in 1..Len(panels) :
             ((buffer'[u] # buffer[u] \/ disk'[u] # disk[u])
              /\ panels[p].uri # u) =>
                 /\ RunsOf(p)' = RunsOf(p)
                 /\ panels'[p] = panels[p]]_vars

C6_Witness ==
    \E p \in 1..Len(panels) :
        /\ panels[p].open
        /\ panels[p].changes = 1
        /\ Cardinality(RunsOf(p)) = 2

\* C7: the run an edit triggers puts on the panel the conversion of the
\* text the document has after that edit.
C7_ShowsEditedText ==
    \A r \in 1..Len(runs) :
        (runs[r].pc = "done" /\ runs[r].event # <<>> /\ runs[r].writes = 1) =>
            runs[r].out = previewOf(runs[r].event[1])

SizeOf(shell) == ParseIntStr(shell.width)

\* C8: in the vector shell the width and the height of the container and the
\* displayed size are the same text, the size stays within 100..400 px, and a
\* click that changes the size changes it by exactly 20 px.
C8_SizeClamped ==
    /\ [](\A p \in 1..Len(panels) :
             panels[p].html.kind = "vector" =>
                 /\ panels[p].shell.width = panels[p].shell.height
                 /\ panels[p].shell.width = panels[p].shell.text
                 /\ SizeOf(panels[p].shell).t = "number"
                 /\ panels[p].shell.width
                      = NumToString(SizeOf(panels[p].shell).n) \o "px"
                 /\ SizeOf(panels[p].shell).n >= 100
                 /\ SizeOf(panels[p].shell).n <= 400)
    /\ [][\A p \in 1..Len(panels) :
             (runs' = runs /\ panels'[p].shell # panels[p].shell) =>
                 \/ SizeOf(panels'[p].shell).n = SizeOf(panels[p].shell).n + 20
                 \/ SizeOf(panels'[p].shell).n = SizeOf(panels[p].shell).n - 20]_vars

C8_Witness ==
    \E p \in 1..Len(panels) :
        /\ panels[p].open
        /\ panels[p].html.kind = "vector"
        /\ panels[p].shell.text = "100px"

\* C9: the layout shell exposes the zoom controls.
C9_LayoutShellHasZoom ==
    \A p \in 1..Len(panels) :
        (panels[p].open /\ panels[p].html.kind = "layout") =>
            {"-", "+"} \subseteq shellControls(panels[p].html)

\* C10: wrap_content, -2 and an absent attribute resolve to "size to
\* content"; match_parent, fill_parent and -1 resolve to "fill available
\* space"; as a string or as a parsed number.
C10_SentinelsResolve ==
    dimBy \in {"convertLayoutDimension", "parseDimension"} =>
        /\ dimRaw \in {Absent, "wrap_content", "-2"} =>
              dimOut \in {Str("auto"), Str("wrap_content")}
        /\ dimRaw \in {"match_parent", "fill_parent", "-1"} =>
              dimOut \in {Str("100%"), Str("match_parent")}

\* the integers tried as pixel counts
PxRange == (-2)..MaxPx

Units == {"dp", "sp"}

\* C11: resolving "<n><u>" for an integer n and a unit u of dp, sp yields the
\* pixel count n ("<n>px" from convertLayoutDimension, the number n from
\* parsePixelValue), and formatting the resolved count back with the same
\* unit and resolving again yields the same result.
C11_UnitRoundTrip ==
    \A n \in PxRange, u \in Units :
        dimRaw = NumToString(n) \o u =>
            /\ dimBy = "convertLayoutDimension" =>
                  /\ dimOut = Str(NumToString(n) \o "px")
                  /\ ParseInt(dimOut) = Num(n)
                  /\ convertLayoutDimension(
                         Str(NumToString(ParseInt(dimOut).n) \o u)) = dimOut.s
            /\ dimBy = "parsePixelValue" =>
                  /\ dimOut = Num(n)
                  /\ parsePixelValue(Str(NumToString(dimOut.n) \o u)) = dimOut

C11_Witness ==
    /\ dimRaw = "12sp"
    /\ dimBy = "convertLayoutDimension"
    /\ dimOut = Str("12px")

\* the text of attribute name of props, Absent when it is not declared
AttrText(props, name) ==
    IF Prop(props, "@_android:" \o name) = Undefined THEN Absent
    ELSE toString(Prop(props, "@_android:" \o name))

\* an attribute counts as set when it is declared with a non-empty text
IsSet(props, name) == AttrText(props, name) \notin {Absent, ""}

\* the text that decides one side: the side-specific attribute, else the
\* directional one (NoDir when the side has none), else the uniform one,
\* else the default
NoDir == "none"

SideText(props, side, dir, uniform, default) ==
    IF IsSet(props, side) THEN AttrText(props, side)
    ELSE IF dir # NoDir /\ IsSet(props, dir) THEN AttrText(props, dir)
    ELSE IF AttrText(props, uniform) # Absent THEN AttrText(props, uniform)
    ELSE default

\* the four sides in the order of the style: top right bottom left
Spacing(props, n, default) ==
    convertLayoutDimension(Str(SideText(props, n[6], NoDir, n[1], default)))
    \o " " \o
    convertLayoutDimension(Str(SideText(props, n[4], n[5], n[1], default)))
    \o " " \o
    convertLayoutDimension(Str(SideText(props, n[7], NoDir, n[1], default)))
    \o " " \o
    convertLayoutDimension(Str(SideText(props, n[2], n[3], n[1], default)))

RECURSIVE ValuesOf(_, _, _)
ValuesOf(s, pat, i) ==
    IF FindFrom(s, pat, i) = 0 THEN <<>>
    ELSE <<SubSeq(s, FindFrom(s, pat, i) + Len(pat),
                  FindFrom(s, "\"", FindFrom(s, pat, i) + Len(pat)) - 1)>>
         \o ValuesOf(s, pat, FindFrom(s, "\"", FindFrom(s, pat, i) + Len(pat)) + 1)

\* the text of attribute android:name of the XML element e, Absent if none
XmlAttr(e, name) ==
    IF \E i \in 1..Len(e.attrs) : e.attrs[i][1] = "android:" \o name
    THEN e.attrs[CHOOSE i \in 1..Len(e.attrs) :
                    e.attrs[i][1] = "android:" \o name][2]
    ELSE Absent

\* a conversion of a vector document that produced the vector shell
ShowsVector ==
    /\ renBy = "updatePreview"
    /\ renIn.v.root.tag = "vector"
    /\ ~renOut.thrown
    /\ renOut.html.kind = "vector"

\* the path children of the element e, in document order
PathKids(e) == SelectSeq(e.kids, LAMBDA c : c.tag = "path")

\* the fill-opacity a path is to get
ExpectedOpacity(vector, path) ==
    IF XmlAttr(path, "fillAlpha") # Absent THEN XmlAttr(path, "fillAlpha")
    ELSE IF XmlAttr(vector, "alpha") # Absent THEN XmlAttr(vector, "alpha")
    ELSE "1"

\* C13: the fill-opacity of every emitted path is the fillAlpha of the path
\* when declared, else the alpha of the vector, else 1; the text is passed
\* through unchanged, also when it lies outside 0..1.
C13_AlphaDefaulting ==
    ShowsVector =>
        LET opacities == ValuesOf(renOut.html.content, " fill-opacity=\"", 1)
        IN  /\ Len(opacities) <= Len(PathKids(renIn.v.root))
            /\ \A i \in 1..Len(opacities) :
                  opacities[i] =
                      ExpectedOpacity(renIn.v.root, PathKids(renIn.v.root)[i])

C13_Witness ==
    /\ ShowsVector
    /\ XmlAttr(renIn.v.root, "alpha") = "2"
    /\ Len(PathKids(renIn.v.root)) = 2
    /\ XmlAttr(PathKids(renIn.v.root)[1], "fillAlpha") = "1.5"
    /\ XmlAttr(PathKids(renIn.v.root)[2], "fillAlpha") = Absent
    /\ ValuesOf(renOut.html.content, " fill-opacity=\"", 1) = <<"1.5", "2">>

\* the number of occurrences of pat in s at or after i
RECURSIVE Occurrences(_, _, _)
Occurrences(s, pat, i) ==
    IF FindFrom(s, pat, i) = 0 THEN 0
    ELSE 1 + Occurrences(s, pat, FindFrom(s, pat, i) + Len(pat))

\* the style attribute of the rendered node
StyleOf(html) == ValuesOf(html, " style=\"", 1)[1]

\* the reference the left, right, top and bottom edge of the node are
\* anchored to ("" when the edge has no anchor)
LeftAnchor(props) ==
    IF IsSet(props, "layout_constraintLeft_toLeftOf")
    THEN AttrText(props, "layout_constraintLeft_toLeftOf")
    ELSE IF IsSet(props, "layout_constraintStart_toStartOf")
    THEN AttrText(props, "layout_constraintStart_toStartOf")
    ELSE ""

EdgeAnchor(props, name) ==
    IF IsSet(props, name) THEN AttrText(props, name) ELSE ""

CenteredBothAxes(props) ==
    /\ LeftAnchor(props) = "parent"
    /\ EdgeAnchor(props, "layout_constraintRight_toRightOf") = "parent"
    /\ EdgeAnchor(props, "layout_constraintTop_toTopOf") = "parent"
    /\ EdgeAnchor(props, "layout_constraintBottom_toBottomOf") = "parent"

BiasPercent(text) ==
    CASE text = "0.25" -> "25"
      [] text = "0.75" -> "75"
      [] OTHER -> "50"

\* C18: a node whose left and right anchors target the same reference
\* (parent or a sibling) is placed horizontally at its horizontal bias, 50%
\* when none is declared; likewise for top and bottom and the vertical bias.
C18_BiasPlacement ==
    renBy = "renderLayoutElement" =>
        /\ (/\ LeftAnchor(renIn.v) # ""
            /\ LeftAnchor(renIn.v)
                 = EdgeAnchor(renIn.v, "layout_constraintRight_toRightOf")) =>
              Includes(StyleOf(renOut.s),
                       "left: "
                       \o BiasPercent(AttrText(renIn.v,
                                                "layout_constraintHorizontal_bias"))
                       \o "%;")
        /\ (/\ EdgeAnchor(renIn.v, "layout_constraintTop_toTopOf") # ""
            /\ EdgeAnchor(renIn.v, "layout_constraintTop_toTopOf")
                 = EdgeAnchor(renIn.v, "layout_constraintBottom_toBottomOf")) =>
              Includes(StyleOf(renOut.s),
                       "top: "
                       \o BiasPercent(AttrText(renIn.v,
                                                "layout_constraintVertical_bias"))
                       \o "%;")

\* the text of attribute android:name of e, or default when not declared
XmlAttrOr(e, name, default) ==
    IF XmlAttr(e, name) = Absent THEN default ELSE XmlAttr(e, name)

\* C15: a vector document that declares viewportWidth w and viewportHeight h
\* and has k path children is shown as one SVG root with viewBox "0 0 w h"
\* and exactly k path shapes in document order, each with the pathData of
\* its path as its data and the declared fillColor as its fill.
C15_VectorEndToEnd ==
    (/\ renBy = "updatePreview"
     /\ renIn.v.root.tag = "vector"
     /\ XmlAttr(renIn.v.root, "viewportWidth") # Absent
     /\ XmlAttr(renIn.v.root, "viewportHeight") # Absent) =>
        /\ ShowsVector
        /\ Occurrences(renOut.html.content, "<svg", 1) = 1
        /\ ValuesOf(renOut.html.content, "viewBox=\"", 1)
             = <<"0 0 " \o XmlAttr(renIn.v.root, "viewportWidth") \o " "
                 \o XmlAttr(renIn.v.root, "viewportHeight")>>
        /\ ValuesOf(renOut.html.content, "<path d=\"", 1)
             = [i \in 1..Len(PathKids(renIn.v.root)) |->
                   XmlAttrOr(PathKids(renIn.v.root)[i], "pathData", "")]
        /\ ValuesOf(renOut.html.content, " fill=\"", 1)
             = [i \in 1..Len(PathKids(renIn.v.root)) |->
                   XmlAttrOr(PathKids(renIn.v.root)[i], "fillColor", "#000000")]

C15_Witness ==
    /\ ShowsVector
    /\ ValuesOf(renOut.html.content, "viewBox=\"", 1) = <<"0 0 24 32">>
    /\ ValuesOf(renOut.html.content, "<path d=\"", 1) = <<"M0 0L24 24", "M1 1">>
    /\ ValuesOf(renOut.html.content, " fill=\"", 1) = <<"#FF0000", "#000000">>

\* the text of a size without its unit suffix
Stripped(text) ==
    IF EndsWith(text, "dp") THEN SubSeq(text, 1, Len(text) - 2) ELSE text

\* C16: a vector without viewportWidth and viewportHeight gets as viewBox its
\* declared width and height without the unit suffix, 24 for each that is
\* absent, whatever other attributes or children it has.
C16_ViewportFallback ==
    (/\ renBy = "updatePreview"
     /\ renIn.v.root.tag = "vector"
     /\ XmlAttr(renIn.v.root, "viewportWidth") = Absent
     /\ XmlAttr(renIn.v.root, "viewportHeight") = Absent) =>
        /\ ShowsVector
        /\ ValuesOf(renOut.html.content, "viewBox=\"", 1)
             = <<"0 0 "
                 \o Stripped(XmlAttrOr(renIn.v.root, "width", "24")) \o " "
                 \o Stripped(XmlAttrOr(renIn.v.root, "height", "24"))>>

\* a conversion of a document whose only child is a TextView
OneTextView ==
    /\ renBy = "updatePreview"
    /\ renIn.v.root.tag # "vector"
    /\ Len(renIn.v.root.kids) = 1
    /\ renIn.v.root.kids[1].tag = "TextView"

\* C17: a TextView of a layout document that declares android:text=T is
\* rendered with T as its content, with the placeholder [Text] when it
\* declares no text; without size attributes its width and height are auto.
C17_TextViewEndToEnd ==
    OneTextView =>
        /\ ~renOut.thrown
        /\ renOut.html.kind = "layout"
        /\ Includes(renOut.html.content,
                    ";\">" \o XmlAttrOr(renIn.v.root.kids[1], "text", "[Text]")
                    \o "</div>")
        /\ (/\ XmlAttr(renIn.v.root.kids[1], "layout_width") = Absent
            /\ XmlAttr(renIn.v.root.kids[1], "layout_height") = Absent) =>
              Includes(ValuesOf(renOut.html.content, " style=\"", 1)[2],
                       "width: auto;height: auto;")

\* C20: a well-formed document whose root tag contains one of the
\* layout-like substrings, and is not vector, is shown as a layout render,
\* not as the error document, whatever its attributes and children hold.
C20_LayoutRootRenders ==
    (/\ renBy = "updatePreview"
     /\ renIn.v.wellFormed
     /\ renIn.v.root.tag # "vector"
     /\ \E w \in LayoutWords : Includes(toLowerCase(renIn.v.root.tag), w)) =>
        /\ ~renOut.thrown
        /\ renOut.html.kind = "layout"

\* the number of elements of the tree rooted at e
RECURSIVE ElemCount(_)
ElemCount(e) ==
    1 + IF Len(e.kids) = 0 THEN 0
        ELSE ElemCount(e.kids[1])
             + ElemCount(Elem(e.tag, e.attrs, Tail(e.kids))) - 1

\* a conversion of a layout document that produced the layout shell
ShowsLayout ==
    /\ renBy = "updatePreview"
    /\ renIn.v.root.tag # "vector"
    /\ ~renOut.thrown
    /\ renOut.html.kind = "layout"

\* C21: every element of a layout document, siblings of the same tag and
\* children of nodes of any view kind included, appears exactly once in the
\* render: the output holds one block per element of the tree.
C21_EveryChildRendered ==
    ShowsLayout =>
        Occurrences(renOut.html.content, "<span class=\"element-type\">", 1)
            = ElemCount(renIn.v.root)

\* no attribute of names is declared on props
NoneDeclared(props, names) ==
    \A i \in 1..Len(names) : AttrText(props, names[i]) = Absent

\* the style of four equal sides
FourSides(side) == side \o " " \o side \o " " \o side \o " " \o side

\* C22: a node without any margin attribute gets 0 on each of the four
\* margin sides; a node without any padding attribute gets the default of
\* 8 pixels on each of the four padding sides.
C22_SpacingDefaults ==
    /\ (renBy = "getMarginStyle" /\ NoneDeclared(renIn.v, MarginNames)) =>
          renOut \in {Str(FourSides("0")), Str(FourSides("0px"))}
    /\ (renBy = "getPaddingStyle" /\ NoneDeclared(renIn.v, PaddingNames)) =>
          renOut = Str(FourSides("8px"))

\* the pathData of the path elements among kids and inside their groups, in
\* document order
RECURSIVE PathDataOf(_)
PathDataOf(kids) ==
    IF Len(kids) = 0 THEN <<>>
    ELSE (IF Head(kids).tag = "path"
          THEN <<XmlAttrOr(Head(kids), "pathData", "")>>
          ELSE PathDataOf(Head(kids).kids))
         \o PathDataOf(Tail(kids))

\* the number of group elements among kids and inside them
RECURSIVE GroupCount(_)
GroupCount(kids) ==
    IF Len(kids) = 0 THEN 0
    ELSE (IF Head(kids).tag = "group" THEN 1 + GroupCount(Head(kids).kids)
          ELSE 0)
         + GroupCount(Tail(kids))

\* C23: every path nested in a group of a vector root appears in the SVG
\* output, in document order, and every group appears as a transform scope
\* around its paths.
C23_GroupPathsRendered ==
    (ShowsVector /\ GroupCount(renIn.v.root.kids) > 0) =>
        /\ ValuesOf(renOut.html.content, "<path d=\"", 1)
             = PathDataOf(renIn.v.root.kids)
        /\ Occurrences(renOut.html.content, "<g transform=\"", 1)
             = GroupCount(renIn.v.root.kids)

\* a vector document whose root has neither path nor group children
NoShapes(doc) ==
    /\ doc.wellFormed
    /\ doc.root.tag = "vector"
    /\ \A i \in 1..Len(doc.root.kids) :
          doc.root.kids[i].tag \notin {"path", "group"}

\* C24: a vector document whose root has no path and no group children is
\* converted without error: the vector shell with one SVG root that has a
\* viewBox (the declared viewport when both are declared) and no shapes.
C24_EmptyVectorRenders ==
    (renBy = "updatePreview" /\ NoShapes(renIn.v)) =>
        /\ ShowsVector
        /\ Occurrences(renOut.html.content, "<svg", 1) = 1
        /\ Len(ValuesOf(renOut.html.content, "viewBox=\"", 1)) = 1
        /\ (/\ XmlAttr(renIn.v.root, "viewportWidth") # Absent
            /\ XmlAttr(renIn.v.root, "viewportHeight") # Absent) =>
              ValuesOf(renOut.html.content, "viewBox=\"", 1)
                = <<"0 0 " \o XmlAttr(renIn.v.root, "viewportWidth") \o " "
                    \o XmlAttr(renIn.v.root, "viewportHeight")>>
        /\ Occurrences(renOut.html.content, "<path", 1) = 0

\* the child of a layout document declares an unrecognized width; the text
\* names no attribute of vector drawables
MalformedChild(doc) ==
    /\ doc.wellFormed
    /\ ~isVectorDrawable(xmlString(doc))
    /\ Len(doc.root.kids) = 1
    /\ XmlAttr(doc.root.kids[1], "layout_width") = "abc"

\* the text is a decimal number
IsNumeric(text) == text # Absent /\ ParseFloat(text) # NaN

AxisPinned(style, near, far, nearEdge, farEdge, translate) ==
    /\ (near # "" /\ far = "") =>
          /\ Includes(style, nearEdge \o ": 0;")
          /\ ~Includes(style, farEdge \o ": ")
          /\ ~Includes(style, translate)
    /\ (near = "" /\ far # "") =>
          /\ Includes(style, farEdge \o ": 0;")
          /\ ~Includes(style, nearEdge \o ": ")
          /\ ~Includes(style, translate)
    /\ (near = "" /\ far = "") =>
          /\ ~Includes(style, nearEdge \o ": ")
          /\ ~Includes(style, farEdge \o ": ")
          /\ ~Includes(style, translate)

\* C26: on each axis independently, a node with exactly one anchored edge
\* is pinned flush to that edge without a transform for the axis, and a node
\* without an anchor on the axis gets no offset and no transform for it.
C26_SingleAnchorPinned ==
    renBy = "renderLayoutElement" =>
        /\ AxisPinned(StyleOf(renOut.s), LeftAnchor(renIn.v),
                      EdgeAnchor(renIn.v, "layout_constraintRight_toRightOf"),
                      "left", "right", "translateX")
        /\ AxisPinned(StyleOf(renOut.s),
                      EdgeAnchor(renIn.v, "layout_constraintTop_toTopOf"),
                      EdgeAnchor(renIn.v, "layout_constraintBottom_toBottomOf"),
                      "top", "bottom", "translateY")

\* the view kind of a tag
KindOf(type) ==
    IF Includes(type, "TextView") THEN "text"
    ELSE IF Includes(type, "Button") THEN "button"
    ELSE IF Includes(type, "ImageView") \/ Includes(type, "PreviewView")
    THEN "image"
    ELSE "other"

\* the placeholder block a node of the kind is to show, "" for none
PlaceholderOf(kind, props) ==
    CASE kind = "text" ->
           "text-content\" style=\"color: #FFFFFF; font-size: 14px; "
           \o "background: transparent;\">"
           \o (IF AttrText(props, "text") = Absent THEN "[Text]"
               ELSE AttrText(props, "text"))
           \o "</div>"
      [] kind = "button" ->
           "button-content\">"
           \o (IF IsSet(props, "contentDescription")
               THEN AttrText(props, "contentDescription")
               ELSE IF IsSet(props, "text") THEN AttrText(props, "text")
               ELSE IF IsSet(props, "src")
               THEN "[" \o AttrText(props, "src") \o "]"
               ELSE "[Button]")
           \o "</div>"
      [] kind = "image" ->
           "image-placeholder\">"
           \o (IF IsSet(props, "src") THEN "[" \o AttrText(props, "src") \o "]"
               ELSE "[Image]")
           \o "</div>"
      [] OTHER -> ""

\* the number of placeholder blocks in a render
Placeholders(html) ==
    Occurrences(html, "<div class=\"text-content\"", 1)
    + Occurrences(html, "<div class=\"button-content\"", 1)
    + Occurrences(html, "<div class=\"image-placeholder\"", 1)

\* C27: the placeholder of a node is decided by its view kind alone: text
\* shows the text, else [Text]; button shows the contentDescription, else
\* the text, else the icon reference, else [Button]; image shows the icon
\* reference when a source is declared, else [Image]; any other kind shows
\* no placeholder; a node never shows more than one placeholder.
C27_PlaceholderByKind ==
    renBy = "renderLayoutElement(type)" =>
        IF KindOf(renIn.v.type) = "other"
        THEN Placeholders(renOut.s) = 0
        ELSE /\ Placeholders(renOut.s) = 1
             /\ Includes(renOut.s,
                         "<div class=\""
                         \o PlaceholderOf(KindOf(renIn.v.type), renIn.v.props))

\* closing stops new runs: no step starts a run for a closed panel
NoRunAfterClose ==
    [][\A p \in 1..Len(panels) :
          ~panels[p].open => RunsOf(p)' = RunsOf(p)]_vars

\* the HTML of a closed panel never changes
ClosedPanelKeepsHtml ==
    [][\A p \in 1..Len(panels) :
          ~panels[p].open => panels'[p].html = panels[p].html]_vars

\* C28: after a panel has been closed no run is started for it, its HTML
\* is not changed, and a run whose read was in flight when the panel was
\* closed executes no assignment of the panel's HTML when it resumes.
C28_NoWriteAfterClose ==
    /\ NoRunAfterClose
    /\ ClosedPanelKeepsHtml
    /\ [][\A r \in 1..Len(runs) :
             (Resumes(r) /\ ~panels[runs[r].panel].open) =>
                 runs'[r].attempts = 0]_vars

\* the element e with the text of each of its attributes, and of those of
\* its descendants, replaced by text
RECURSIVE WithValues(_, _)
WithValues(e, text) ==
    Elem(e.tag,
         [i \in 1..Len(e.attrs) |-> <<e.attrs[i][1], text>>],
         [i \in 1..Len(e.kids) |-> WithValues(e.kids[i], text)])

\* the attribute texts a layout document is given instead of its own
OtherValues == {"7dp", "parent", "@+id/x", "0.25", "android:pathData"}

\* a well-formed document whose root tag is layout-like
LayoutLike(doc) ==
    /\ doc.wellFormed
    /\ doc.root.tag # "vector"
    /\ \E w \in LayoutWords : Includes(toLowerCase(doc.root.tag), w)

\* C29: no android: attribute of a layout document is ever found, so a
\* layout document and the same element tree with other attribute values
\* produce identical output.
C29_ValuesIgnored ==
    (renBy = "updatePreview" /\ LayoutLike(renIn.v)) =>
        \A text \in OtherValues :
            renOut = convert(Doc(TRUE, WithValues(renIn.v.root, text)))

\* the views of the tree rooted at view
RECURSIVE ViewsOf(_)
ViewsOf(view) ==
    {view} \cup UNION {ViewsOf(view.children[i]) : i \in 1..Len(view.children)}

\* the measured sizes of the tree rooted at view
RECURSIVE SizesOf(_)
SizesOf(view) ==
    <<view.measuredWidth, view.measuredHeight,
      [i \in 1..Len(view.children) |-> SizesOf(view.children[i])]>>

\* the measured size of a view agrees with its declared size under spec
SizeResolved(view, declared, measuredSize, spec) ==
    /\ declared = Str("match_parent") => measuredSize = Num(spec.size)
    /\ declared = Str("wrap_content") =>
          /\ measuredSize = MathMin(getDesiredSize(view), Num(spec.size))
          /\ measuredSize.t = "number"
          /\ measuredSize.n <= spec.size
    /\ declared.t = "number" => measuredSize = declared

\* the last call of measure on the layout
LastSpecs == measured[Len(measured)]

\* C30: after ConstraintLayout.measure(w, h) every direct child has been
\* measured with specs of the size and mode of w and h; a view declared
\* match_parent measures the size of the spec, a view declared wrap_content
\* the minimum of its desired size and the size of the spec, a view of a
\* fixed size that size, for width and height; measuring again with the
\* same specs changes no measured size.
C30_MeasureContract ==
    /\ [](measured # <<>> =>
            /\ \A i \in 1..Len(layout.children) :
                  /\ layout.children[i].measuredWith # <<>>
                  /\ \A j \in 1..Len(layout.children[i].measuredWith) :
                        layout.children[i].measuredWith[j]
                            = measured[(j + 1) \div 2]
            /\ \A view \in ViewsOf(layout) :
                  /\ SizeResolved(view, view.attributes.width,
                                  view.measuredWidth, LastSpecs[1])
                  /\ SizeResolved(view, view.attributes.height,
                                  view.measuredHeight, LastSpecs[2]))
    /\ [][(/\ measured # <<>>
           /\ Len(measured') = Len(measured) + 1
           /\ measured'[Len(measured')] = LastSpecs) =>
              SizesOf(layout') = SizesOf(layout)]_vars

\* C19: the openPreview command with an active editor creates one panel
\* bound to the URI of that editor's document, with its subscription, and
\* starts its initial conversion; without an active editor it creates no
\* panel, no subscription and no run and only reports an error message.
C19_OpenPreviewCommand ==
    /\ [][\A e \in Uris \cup {NoEditor} :
             OpenPreview(e) =>
                 IF e = NoEditor
                 THEN /\ panels' = panels
                      /\ runs' = runs
                      /\ messages' = messages \cup {"Please open an XML file first"}
                 ELSE /\ panels'[Len(panels')].uri = e
                      /\ messages' = messages]_vars
    /\ [][Len(panels') # Len(panels) =>
             /\ Len(panels') = Len(panels) + 1
             /\ SubSeq(panels', 1, Len(panels)) = panels
             /\ panels'[Len(panels')].open
             /\ panels'[Len(panels')].subscribed
             /\ Len(runs') = Len(runs) + 1
             /\ SubSeq(runs', 1, Len(runs)) = runs
             /\ runs'[Len(runs')].panel = Len(panels')
             /\ runs'[Len(runs')].pc = "reading"
             /\ runs'[Len(runs')].event = <<>>]_vars
    /\ [][messages' # messages => (panels' = panels /\ runs' = runs)]_vars

C19_Witness ==
    /\ messages = {"Please open an XML file first"}
    /\ Len(panels) = 1
    /\ panels[1].uri = "file:///res/b.xml"
    /\ panels[1].open /\ panels[1].subscribed
    /\ Len(runs) = 1
    /\ runs[1].panel = 1 /\ runs[1].pc = "reading" /\ runs[1].event = <<>>

====
